---- MODULE Spec2Model ----
(***************************************************************************)
(* A model of torchbearer/cv_utils.py: the tensor splitter                 *)
(* (train_valid_splitter), the dataset assembler (get_train_valid_sets),   *)
(* the index-partition splitter (DatasetValidationSplitter) and the subset *)
(* view (SubsetDataset).                                                   *)
(*                                                                         *)
(* Python lists are objects: the model keeps them in a heap (ref -> list)  *)
(* and the splitter, the state dicts and the views hold references, as the *)
(* attributes self.train_ids, self.valid_ids and self.ids do.              *)
(* A split fraction is the Python float num / den, written <<num, den>>     *)
(* with den > 0.  The product dataset_len * split_fraction is computed as  *)
(* Python computes it, in IEEE-754 double arithmetic on binary digits:     *)
(* num / den rounded to 53 digits, the product rounded to 53 digits, then  *)
(* math.floor.                                                             *)
(*                                                                         *)
(* The two generators are library code.  Module random is CPython's        *)
(* Mersenne Twister with a process-wide state: random.seed(k) sets the     *)
(* state, _randbelow draws output words from it until one is below its     *)
(* argument, and random.shuffle is the loop of exchanges it runs on those  *)
(* draws.  The model knows the generator's state while it is a seeded one  *)
(* whose output words are tabulated (MTWords); any other state, the one    *)
(* the process starts in included, is Unknown and its draws are a choice   *)
(* among all values.  torch.randperm(n) is a choice among all permutations *)
(* of 0..n-1.                                                              *)
(***************************************************************************)
EXTENDS Integers, Sequences, FiniteSets, TLC

VARIABLES
    rng,         \* state of the process-wide generator of module random
    heap,        \* the list objects: reference -> sequence of indices
    splitters,   \* the constructed DatasetValidationSplitter objects
    seeds,       \* per splitter, the shuffle_seed its constructor was given
    dicts,       \* the state dicts the caller holds
    views,       \* the SubsetDataset objects the caller holds
    ret          \* the outcome of the most recent call

vars == <<rng, heap, splitters, seeds, dicts, views, ret>>

---------------------------------------------------------------------------
(* Bounds of the model *)

MaxLen == 3            \* dataset_len and tensor length are drawn from 0..MaxLen
MaxStateLen == 2       \* dataset_len in the specification with views and dicts
MaxSeed == 1           \* shuffle_seed is None or in 0..MaxSeed
MaxOtherDraws == 2     \* output words other code draws from a seeded generator
NumSplitters == 2      \* splitter objects
MaxForeign == 1        \* state dicts built by the caller, not by state_dict()
MaxForeignLen == 1     \* length of the lists of such a dict
MaxForeignIdx == 2     \* its indices are drawn from 0..MaxForeignIdx
MaxViews == 2          \* views the caller holds
MaxDicts == 1          \* state dicts the caller holds

\* Python's None where an optional argument (shuffle_seed, validation_data,
\* validation_split) is absent; a given value v is the one-element sequence <<v>>.
None == << >>
Some(v) == <<v>>
Val(o) == o[1]

\* Split fractions <<num, den>>: below -1, -1, between -1 and 0, inside [0,1]
\* and above 1.
Fractions ==
    { <<0 - 3, 2>>, <<0 - 1, 1>>, <<0 - 1, 2>>, <<0, 1>>, <<3, 10>>, <<1, 2>>, <<1, 1>>,
      <<3, 2>> }

\* Lengths with fractions whose product is an integer in exact arithmetic and
\* falls below it in double arithmetic
FloatCases ==
    { <<22, <<15, 22>>>>, <<25, <<0 - 14, 25>>>>, <<100, <<29, 100>>>> }

InUnit(f) == 0 <= f[1] /\ f[1] <= f[2]

StateFractions == { <<0, 1>>, <<1, 2>>, <<1, 1>> }

Seeds == {None} \cup { Some(k) : k \in 0 .. MaxSeed }

SplitterIds == 1 .. NumSplitters

---------------------------------------------------------------------------
(* Python primitives used by the module *)

\* list(range(n))
Range(n) == [i \in 1 .. n |-> i - 1]

\* n.bit_length()
RECURSIVE BitLength(_)
BitLength(n) == IF n = 0 THEN 0 ELSE 1 + BitLength(n \div 2)

\* The w binary digits of n < 2^w, most significant first
FixedBits(n, w) == [i \in 1 .. w |-> (n \div 2 ^ (w - i)) % 2]

\* The binary digits of n, the first one 1 (none for 0)
BitsOf(n) == FixedBits(n, BitLength(n))

\* The number whose binary digits are b
RECURSIVE BitsValue(_)
BitsValue(b) ==
    IF b = << >> THEN 0 ELSE 2 * BitsValue(SubSeq(b, 1, Len(b) - 1)) + b[Len(b)]

\* b + 1 on binary digits: the last 0 becomes 1 and the 1s after it 0
Increment(b) ==
    LET zeros == { i \in 1 .. Len(b) : b[i] = 0 }
    IN  IF zeros = {} THEN <<1>> \o [i \in 1 .. Len(b) |-> 0]
        ELSE LET z == CHOOSE i \in zeros : \A j \in zeros : j <= i
             IN  [i \in 1 .. Len(b) |-> IF i < z THEN b[i] ELSE IF i = z THEN 1 ELSE 0]

\* Rounding to a double, to nearest and ties to even.  A double is [m, e]: the
\* 53 binary digits m, the first one 1, times 2^e.  The exact value is b * 2^e
\* (b with first digit 1), plus something below the last digit of b when sticky.
RoundToDouble(b, e, sticky) ==
    IF Len(b) <= 53
    THEN [m |-> b \o [i \in 1 .. (53 - Len(b)) |-> 0], e |-> e - (53 - Len(b))]
    ELSE LET kept == SubSeq(b, 1, 53)
             rest == sticky \/ \E i \in 55 .. Len(b) : b[i] = 1
             up == b[54] = 1 /\ (rest \/ kept[53] = 1)
             r == IF up THEN Increment(kept) ELSE kept
         IN  IF Len(r) > 53
             THEN [m |-> SubSeq(r, 1, 53), e |-> e + (Len(b) - 53) + 1]
             ELSE [m |-> r, e |-> e + (Len(b) - 53)]

\* Long division of rem / b (rem < b) to k binary digits past the point, 14
\* digits at a time: the digits, and the remainder left
RECURSIVE DivBits(_, _, _)
DivBits(rem, b, k) ==
    IF k <= 14 THEN FixedBits((rem * 2 ^ k) \div b, k)
    ELSE FixedBits((rem * 2 ^ 14) \div b, 14) \o DivBits((rem * 2 ^ 14) % b, b, k - 14)

RECURSIVE DivRem(_, _, _)
DivRem(rem, b, k) ==
    IF k <= 14 THEN (rem * 2 ^ k) % b
    ELSE DivRem((rem * 2 ^ 14) % b, b, k - 14)

\* The exponent of num / den: the L with 2^L <= num / den < 2^(L+1)
RECURSIVE Exponent(_, _)
Exponent(num, den) ==
    IF num < den THEN Exponent(2 * num, den) - 1
    ELSE IF num >= 2 * den THEN Exponent(num, 2 * den) + 1
    ELSE 0

\* The float num / den for num > 0: the double nearest to the quotient.  With
\* num / den = (a / b) * 2^L and b <= a < 2b, the quotient a / b is 1 point the
\* digits of the long division of a - b by b.
ToDouble(num, den) ==
    LET L == Exponent(num, den)
        a == IF L < 0 THEN num * 2 ^ (0 - L) ELSE num
        b == IF L > 0 THEN den * 2 ^ L ELSE den
    IN  RoundToDouble(<<1>> \o DivBits(a - b, b, 53), L - 53, DivRem(a - b, b, 53) # 0)

\* n * m on the binary digits m, 14 digits at a time from the last
RECURSIVE TimesBits(_, _, _)
TimesBits(n, m, carry) ==
    IF Len(m) <= 14 THEN BitsOf(n * BitsValue(m) + carry)
    ELSE LET t == n * BitsValue(SubSeq(m, Len(m) - 13, Len(m))) + carry
         IN  TimesBits(n, SubSeq(m, 1, Len(m) - 14), t \div 2 ^ 14)
                 \o FixedBits(t % 2 ^ 14, 14)

\* n * d in double arithmetic, for an integer n > 0 and a double d
Times(n, d) == RoundToDouble(TimesBits(n, d.m, 0), d.e, FALSE)

\* The integer part of the double d > 0, and whether d has a fractional part
IntPart(d) ==
    IF d.e >= 0 THEN BitsValue(d.m) * 2 ^ d.e
    ELSE IF 53 + d.e < 1 THEN 0
    ELSE BitsValue(SubSeq(d.m, 1, 53 + d.e))

HasFraction(d) == \E i \in 1 .. 53 : i > 53 + d.e /\ d.m[i] = 1

\* A variant that floors the exact product
ExactFloorMul(n, f) == (n * f[1]) \div f[2]

\* int(math.floor(n * f)) for the float f = num / den: the floor of the double
\* product, downwards also for a negative f
FloorMul(n, f) ==
    IF n = 0 \/ f[1] = 0 THEN 0
    ELSE IF f[1] > 0 THEN IntPart(Times(n, ToDouble(f[1], f[2])))
    ELSE LET p == Times(n, ToDouble(0 - f[1], f[2]))
         IN  IF HasFraction(p) THEN 0 - IntPart(p) - 1 ELSE 0 - IntPart(p)

\* A variant that treats a negative bound as 0
SliceBoundClamped(k, len) == IF k < 0 THEN 0 ELSE IF k > len THEN len ELSE k

\* The bound k of a slice, as Python normalises it for a sequence of length len.
SliceBound(k, len) ==
    LET k1 == IF k < 0 THEN k + len ELSE k
    IN  IF k1 < 0 THEN 0 ELSE IF k1 > len THEN len ELSE k1

\* s[:k]
SliceTo(s, k) == SubSeq(s, 1, SliceBound(k, Len(s)))

\* A variant that starts one element late
SliceFromOffByOne(s, k) == SubSeq(s, SliceBound(k, Len(s)) + 2, Len(s))

\* s[k:]
SliceFrom(s, k) == SubSeq(s, SliceBound(k, Len(s)) + 1, Len(s))

\* s with the (1-based) positions a and b exchanged
Swap(s, a, b) == [s EXCEPT ![a] = s[b], ![b] = s[a]]

\* The state of the generator: Unknown, or <<k, p>> after random.seed(k) and p
\* output words drawn since.
Unknown == << >>

\* The leading five bits of the first 48 output words (of 32 bits) of the
\* Mersenne Twister after random.seed(k), for k = 0, 1, 2, 3 (MTWords[k + 1]).
MTWords ==
    << <<27, 12, 24, 28, 13, 1, 8, 30, 16, 15, 12, 29, 25, 26, 9, 30,
         15, 11, 18, 28, 29, 6, 16, 4, 9, 4, 24, 3, 19, 25, 8, 31,
         29, 17, 31, 22, 25, 19, 28, 4, 9, 3, 23, 2, 28, 27, 21, 10>>,
       <<4, 18, 27, 25, 24, 2, 8, 3, 15, 24, 14, 15, 20, 12, 25, 6,
         3, 15, 0, 28, 26, 12, 13, 19, 24, 24, 0, 22, 14, 8, 23, 25,
         7, 18, 30, 3, 28, 10, 0, 0, 0, 20, 17, 0, 30, 28, 12, 21>>,
       <<30, 27, 30, 27, 1, 2, 2, 11, 26, 5, 23, 25, 21, 27, 9, 8,
         19, 6, 19, 1, 18, 21, 5, 31, 13, 20, 12, 25, 23, 27, 31, 16,
         30, 11, 17, 29, 14, 16, 8, 28, 1, 27, 0, 11, 14, 29, 10, 29>>,
       <<7, 18, 17, 4, 11, 29, 19, 15, 20, 18, 2, 19, 0, 29, 26, 15,
         8, 17, 7, 6, 31, 22, 15, 17, 26, 17, 15, 12, 20, 27, 4, 7,
         20, 4, 27, 29, 16, 12, 23, 0, 21, 24, 2, 5, 24, 30, 18, 1>> >>

\* random.seed(seed): the generator's state becomes a function of the seed alone.
SeedState(seed) == <<seed, 0>>

\* One output word drawn advances the generator.
RngNext(g) == <<g[1], g[2] + 1>>

\* The next output word of state g is tabulated, with the k bits asked of it.
Tabulated(g, k) ==
    /\ g # Unknown
    /\ g[1] + 1 \in DOMAIN MTWords
    /\ g[2] + 1 \in DOMAIN MTWords[g[1] + 1]
    /\ k <= 5

\* getrandbits(k) in state g: the k leading bits of the next output word
GetRandBits(g, k) == MTWords[g[1] + 1][g[2] + 1] \div 2 ^ (5 - k)

\* random's _randbelow(n) in state g: k = n.bit_length(); r = getrandbits(k);
\* while r >= n: r = getrandbits(k).  The outcomes are pairs of the value and the
\* state left: one where the words are tabulated, every value of 0..n-1 otherwise.
RECURSIVE RandBelow(_, _)
RandBelow(g, n) ==
    IF ~Tabulated(g, BitLength(n))
    THEN { [value |-> j, rng |-> Unknown] : j \in 0 .. (n - 1) }
    ELSE IF GetRandBits(g, BitLength(n)) < n
    THEN { [value |-> GetRandBits(g, BitLength(n)), rng |-> RngNext(g)] }
    ELSE RandBelow(RngNext(g), n)

\* random.shuffle(x): for i in reversed(range(1, len(x))): j = randbelow(i + 1);
\* x[i], x[j] = x[j], x[i].  ShuffleFrom runs the loop from index i downwards;
\* the outcomes are pairs of the shuffled list and the state left.
RECURSIVE ShuffleFrom(_, _, _)
ShuffleFrom(x, i, g) ==
    IF i < 1 THEN { [list |-> x, rng |-> g] }
    ELSE UNION { ShuffleFrom(Swap(x, i + 1, d.value + 1), i - 1, d.rng) :
                     d \in RandBelow(g, i + 1) }

Shuffle(x, g) == ShuffleFrom(x, Len(x) - 1, g)

---------------------------------------------------------------------------
(* DatasetValidationSplitter *)

ValidRef(s) == 2 * s - 1
TrainRef(s) == 2 * s

\* A variant that never seeds
Unseeded(seed, s) == s

\* The generator state the shuffle of _gen_split_ids starts from: random.seed(seed)
\* when a seed is given, the current state otherwise.
Seeded(seed, s) == IF seed # None THEN SeedState(Val(seed)) ELSE s

\* _gen_split_ids: its outcomes, each the two slices of the shuffled identity
\* sequence and the generator state it leaves.
GenSplitIds(dataset_len, split_fraction, seed, s) ==
    LET num_valid_ids == FloorMul(dataset_len, split_fraction)
    IN  { [valid_ids |-> SliceTo(sh.list, num_valid_ids),
           train_ids |-> SliceFrom(sh.list, num_valid_ids),
           rng |-> sh.rng] :
              sh \in Shuffle(Range(dataset_len), Seeded(seed, s)) }

\* __init__ of splitter object s
Construct(s, dataset_len, split_fraction, shuffle_seed) ==
    /\ s \notin DOMAIN splitters
    /\ \E g \in GenSplitIds(dataset_len, split_fraction, shuffle_seed, rng) :
           /\ rng' = g.rng
           /\ heap' = heap @@ (ValidRef(s) :> g.valid_ids) @@ (TrainRef(s) :> g.train_ids)
           /\ splitters' = splitters @@
                  (s :> [dataset_len |-> dataset_len,
                         split_fraction |-> split_fraction,
                         valid_ids |-> ValidRef(s),
                         train_ids |-> TrainRef(s)])
           /\ seeds' = seeds @@ (s :> shuffle_seed)
           /\ ret' = [op |-> "init", self |-> s, err |-> "none"]
    /\ UNCHANGED <<dicts, views>>

\* Any other use of the process-wide generator by the rest of the process: it
\* seeds the generator, from a number or from the system's entropy, or draws
\* an output word.
OtherRandomUse ==
    /\ \/ \E k \in 0 .. MaxSeed : rng' = SeedState(k)
       \/ rng' = Unknown
       \/ /\ rng # Unknown
          /\ rng[2] < MaxOtherDraws
          /\ rng' = RngNext(rng)
    /\ rng' # rng
    /\ UNCHANGED <<heap, splitters, seeds, dicts, views, ret>>

\* state_dict(): a new dict holding the two references
StateDict(self) == [train_ids |-> self.train_ids, valid_ids |-> self.valid_ids]

\* A variant that exchanges the two fields
LoadStateDictSwapped(mem, self, state_dict) ==
    [heap |-> mem,
     self |-> [self EXCEPT !.train_ids = state_dict.valid_ids,
                           !.valid_ids = state_dict.train_ids],
     err |-> "none"]

\* A variant that rejects a dict whose index count is not dataset_len
LoadStateDictValidated(mem, self, state_dict) ==
    IF Len(mem[state_dict.train_ids]) + Len(mem[state_dict.valid_ids]) = self.dataset_len
    THEN [heap |-> mem,
          self |-> [self EXCEPT !.train_ids = state_dict.train_ids,
                                !.valid_ids = state_dict.valid_ids],
          err |-> "none"]
    ELSE [heap |-> mem, self |-> self, err |-> "ValueError"]

\* A variant that overwrites the splitter's lists in place
LoadStateDictInPlace(mem, self, state_dict) ==
    [heap |-> [mem EXCEPT ![self.train_ids] = mem[state_dict.train_ids],
                          ![self.valid_ids] = mem[state_dict.valid_ids]],
     self |-> self,
     err |-> "none"]

\* load_state_dict(state_dict): rebinds the two attributes; mem is the heap,
\* which the assignment leaves as it is.
LoadStateDict(mem, self, state_dict) ==
    [heap |-> mem,
     self |-> [self EXCEPT !.train_ids = state_dict.train_ids,
                           !.valid_ids = state_dict.valid_ids],
     err |-> "none"]

\* SubsetDataset.__init__
SubsetDataset(dataset, ids) == [dataset |-> dataset, ids |-> ids]

GetTrainDataset(self, dataset) == SubsetDataset(dataset, self.train_ids)

GetValDataset(self, dataset) == SubsetDataset(dataset, self.valid_ids)

GetSets(self, dataset) == <<GetTrainDataset(self, dataset), GetValDataset(self, dataset)>>

---------------------------------------------------------------------------
(* SubsetDataset.  A parent dataset is a sequence-like object given by its  *)
(* length; its item at index k is written Some(k).                         *)

\* A variant that gives the last element for an index past the end
ListGetItemClamped(lst, index) ==
    LET k0 == IF index < 0 THEN index + Len(lst) ELSE index
        k == IF k0 >= Len(lst) THEN Len(lst) - 1 ELSE k0
    IN  IF 0 <= k /\ k < Len(lst)
        THEN [err |-> "none", value |-> Some(lst[k + 1])]
        ELSE [err |-> "IndexError", value |-> None]

\* list.__getitem__: lst[index], negative indices counting from the end
ListGetItem(lst, index) ==
    LET k == IF index < 0 THEN index + Len(lst) ELSE index
    IN  IF 0 <= k /\ k < Len(lst)
        THEN [err |-> "none", value |-> Some(lst[k + 1])]
        ELSE [err |-> "IndexError", value |-> None]

\* dataset.__getitem__(k) of a parent of length dataset
DatasetGetItem(dataset, k) ==
    LET k1 == IF k < 0 THEN k + dataset ELSE k
    IN  IF 0 <= k1 /\ k1 < dataset
        THEN [err |-> "none", item |-> Some(k1)]
        ELSE [err |-> "IndexError", item |-> None]

\* SubsetDataset.__getitem__
GetItem(mem, view, index) ==
    LET r == ListGetItem(mem[view.ids], index)
    IN  IF r.err # "none" THEN [err |-> r.err, item |-> None]
        ELSE DatasetGetItem(view.dataset, Val(r.value))

\* SubsetDataset.__len__
ViewLen(mem, view) == Len(mem[view.ids])

---------------------------------------------------------------------------
(* The calls on splitters and views *)

StateDictCall(s) ==
    /\ s \in DOMAIN splitters
    /\ LET d == StateDict(splitters[s])
           e == [obj |-> d, train |-> heap[d.train_ids], valid |-> heap[d.valid_ids]]
       IN  /\ Cardinality(dicts \cup {e}) <= MaxDicts
           /\ dicts' = dicts \cup {e}
           /\ ret' = [op |-> "state_dict", self |-> s, err |-> "none"]
    /\ UNCHANGED <<rng, heap, splitters, seeds, views>>

\* The caller builds the k-th dict of its own, with the lists t and v.
ForeignTrainRef(k) == 2 * NumSplitters + 2 * k - 1
ForeignValidRef(k) == 2 * NumSplitters + 2 * k

CallerDict(k, t, v) ==
    /\ ForeignTrainRef(k) \notin DOMAIN heap
    /\ k > 1 => ForeignTrainRef(k - 1) \in DOMAIN heap
    /\ Cardinality(dicts) < MaxDicts
    /\ heap' = heap @@ (ForeignTrainRef(k) :> t) @@ (ForeignValidRef(k) :> v)
    /\ dicts' = dicts \cup
           {[obj |-> [train_ids |-> ForeignTrainRef(k), valid_ids |-> ForeignValidRef(k)],
             train |-> t, valid |-> v]}
    /\ ret' = [op |-> "dict", err |-> "none"]
    /\ UNCHANGED <<rng, splitters, seeds, views>>

LoadStateDictCall(s, d) ==
    /\ s \in DOMAIN splitters
    /\ d \in dicts
    /\ LET r == LoadStateDict(heap, splitters[s], d.obj)
       IN  /\ heap' = r.heap
           /\ splitters' = [splitters EXCEPT ![s] = r.self]
           /\ ret' = [op |-> "load_state_dict", self |-> s, arg |-> d, err |-> r.err]
    /\ UNCHANGED <<rng, seeds, dicts, views>>

GetTrainDatasetCall(s, dataset) ==
    /\ s \in DOMAIN splitters
    /\ LET v == GetTrainDataset(splitters[s], dataset)
       IN  /\ Cardinality(views \cup {v}) <= MaxViews
           /\ views' = views \cup {v}
           /\ ret' = [op |-> "get_train_dataset", self |-> s, result |-> <<v>>,
                      err |-> "none"]
    /\ UNCHANGED <<rng, heap, splitters, seeds, dicts>>

GetValDatasetCall(s, dataset) ==
    /\ s \in DOMAIN splitters
    /\ LET v == GetValDataset(splitters[s], dataset)
       IN  /\ Cardinality(views \cup {v}) <= MaxViews
           /\ views' = views \cup {v}
           /\ ret' = [op |-> "get_val_dataset", self |-> s, result |-> <<v>>,
                      err |-> "none"]
    /\ UNCHANGED <<rng, heap, splitters, seeds, dicts>>

GetSetsCall(s, dataset) ==
    /\ s \in DOMAIN splitters
    /\ LET r == GetSets(splitters[s], dataset)
       IN  /\ Cardinality(views \cup {r[1], r[2]}) <= MaxViews
           /\ views' = views \cup {r[1], r[2]}
           /\ ret' = [op |-> "get_sets", self |-> s, result |-> r, err |-> "none"]
    /\ UNCHANGED <<rng, heap, splitters, seeds, dicts>>

GetItemCall(v, index) ==
    /\ v \in views
    /\ LET r == GetItem(heap, v, index)
       IN  ret' = [op |-> "getitem", view |-> v, index |-> index,
                   item |-> r.item, err |-> r.err]
    /\ UNCHANGED <<rng, heap, splitters, seeds, dicts, views>>

LenCall(v) ==
    /\ v \in views
    /\ ret' = [op |-> "len", view |-> v, result |-> ViewLen(heap, v), err |-> "none"]
    /\ UNCHANGED <<rng, heap, splitters, seeds, dicts, views>>

---------------------------------------------------------------------------
(* The tensor splitter and the dataset assembler.  A tensor is the sequence *)
(* of its samples along the first dimension.                               *)

\* t[indicies]: the samples of t at the (0-based) positions indicies
IndexBy(t, indicies) == [j \in 1 .. Len(indicies) |-> t[indicies[j] + 1]]

\* The outcomes of torch.randperm(n)
Perms(n) ==
    { p \in [1 .. n -> 0 .. (n - 1)] : \A a, b \in 1 .. n : p[a] = p[b] => a = b }

\* A variant that permutes the data and leaves the labels in place
TrainValidSplitterLabelsInPlace(x, y, split, shuffle, indicies) ==
    LET num_valid_samples == FloorMul(Len(x), split)
        x1 == IF shuffle THEN IndexBy(x, indicies) ELSE x
    IN  [x |-> SliceFrom(x1, num_valid_samples),
         y |-> SliceFrom(y, num_valid_samples),
         x_val |-> SliceTo(x1, num_valid_samples),
         y_val |-> SliceTo(y, num_valid_samples)]

\* train_valid_splitter; indicies is the outcome of torch.randperm
TrainValidSplitter(x, y, split, shuffle, indicies) ==
    LET num_samples_x == Len(x)
        num_valid_samples == FloorMul(num_samples_x, split)
        x1 == IF shuffle THEN IndexBy(x, indicies) ELSE x
        y1 == IF shuffle THEN IndexBy(y, indicies) ELSE y
    IN  [x |-> SliceFrom(x1, num_valid_samples),
         y |-> SliceFrom(y1, num_valid_samples),
         x_val |-> SliceTo(x1, num_valid_samples),
         y_val |-> SliceTo(y1, num_valid_samples)]

\* TensorDataset(a, b): the dataset of the pairs (a[i], b[i])
TensorDataset(a, b) == [i \in 1 .. Len(a) |-> <<a[i], b[i]>>]

\* A variant that tests the split fraction before the validation tensors
GetTrainValidSetsSplitFirst(x, y, validation_data, validation_split, shuffle, indicies) ==
    LET parts ==
            IF validation_split # None
            THEN LET r == TrainValidSplitter(x, y, Val(validation_split), shuffle, indicies)
                 IN  [x |-> r.x, y |-> r.y, x_val |-> Some(r.x_val), y_val |-> Some(r.y_val)]
            ELSE IF validation_data # None
            THEN [x |-> x, y |-> y,
                  x_val |-> Some(Val(validation_data)[1]),
                  y_val |-> Some(Val(validation_data)[2])]
            ELSE [x |-> x, y |-> y, x_val |-> None, y_val |-> None]
    IN  [trainset |-> TensorDataset(parts.x, parts.y),
         valset |-> IF parts.x_val # None /\ parts.y_val # None
                    THEN Some(TensorDataset(Val(parts.x_val), Val(parts.y_val)))
                    ELSE None]

\* get_train_valid_sets; validation_data is None or Some(<<x_val, y_val>>),
\* validation_split is None or Some(f) for a float f
GetTrainValidSets(x, y, validation_data, validation_split, shuffle, indicies) ==
    LET parts ==
            IF validation_data # None
            THEN [x |-> x, y |-> y,
                  x_val |-> Some(Val(validation_data)[1]),
                  y_val |-> Some(Val(validation_data)[2])]
            ELSE IF validation_split # None
            THEN LET r == TrainValidSplitter(x, y, Val(validation_split), shuffle, indicies)
                 IN  [x |-> r.x, y |-> r.y, x_val |-> Some(r.x_val), y_val |-> Some(r.y_val)]
            ELSE [x |-> x, y |-> y, x_val |-> None, y_val |-> None]
    IN  [trainset |-> TensorDataset(parts.x, parts.y),
         valset |-> IF parts.x_val # None /\ parts.y_val # None
                    THEN Some(TensorDataset(Val(parts.x_val), Val(parts.y_val)))
                    ELSE None]

\* The tensors of the calls: sample i of the data tensor is <<"x", i>>, its label <<"y", i>>
DataTensor(n) == [i \in 1 .. n |-> <<"x", i - 1>>]
LabelTensor(n) == [i \in 1 .. n |-> <<"y", i - 1>>]
ValData(m) == <<[i \in 1 .. m |-> <<"xv", i - 1>>], [i \in 1 .. m |-> <<"yv", i - 1>>]>>

TrainValidSplitterCall(n, split, shuffle, indicies) ==
    /\ ret' = [op |-> "train_valid_splitter", n |-> n, split |-> split,
               shuffle |-> shuffle,
               out |-> TrainValidSplitter(DataTensor(n), LabelTensor(n), split,
                                          shuffle, indicies),
               err |-> "none"]
    /\ UNCHANGED <<rng, heap, splitters, seeds, dicts, views>>

GetTrainValidSetsCall(n, validation_data, validation_split, shuffle, indicies) ==
    /\ ret' = [op |-> "get_train_valid_sets", n |-> n,
               validation_data |-> validation_data,
               validation_split |-> validation_split, shuffle |-> shuffle,
               out |-> GetTrainValidSets(DataTensor(n), LabelTensor(n), validation_data,
                                         validation_split, shuffle, indicies),
               err |-> "none"]
    /\ UNCHANGED <<rng, heap, splitters, seeds, dicts, views>>

---------------------------------------------------------------------------
(* Specifications *)

Init ==
    /\ rng = Unknown
    /\ heap = << >>
    /\ splitters = << >>
    /\ seeds = << >>
    /\ dicts = {}
    /\ views = {}
    /\ ret = [op |-> "none"]

\* The lists of a dict the caller builds itself
ForeignLists ==
    UNION { [1 .. l -> 0 .. MaxForeignIdx] : l \in 0 .. MaxForeignLen }

\* The parent dataset (by length) the views are made over, and the indices
\* the views are read at
Datasets == {MaxStateLen}
Indices == (0 - (MaxStateLen + 1)) .. (MaxStateLen + 1)

\* A splitter with its views, its state dicts and the dicts the caller builds
Next ==
    \/ \E n \in 0 .. MaxStateLen, f \in StateFractions, sd \in Seeds :
           Construct(1, n, f, sd)
    \/ StateDictCall(1)
    \/ \E k \in 1 .. MaxForeign, t \in ForeignLists, v \in ForeignLists : CallerDict(k, t, v)
    \/ \E d \in dicts : LoadStateDictCall(1, d)
    \/ \E ds \in Datasets : GetTrainDatasetCall(1, ds)
    \/ \E ds \in Datasets : GetValDatasetCall(1, ds)
    \/ \E ds \in Datasets : GetSetsCall(1, ds)
    \/ \E v \in views, i \in Indices : GetItemCall(v, i)
    \/ \E v \in views : LenCall(v)

Spec == Init /\ [][Next]_vars

\* Several splitters exchanging state dicts
NextDicts ==
    \/ \E s \in SplitterIds, n \in 0 .. MaxStateLen, f \in StateFractions, sd \in Seeds :
           Construct(s, n, f, sd)
    \/ \E s \in SplitterIds : StateDictCall(s)
    \/ \E s \in SplitterIds, d \in dicts : LoadStateDictCall(s, d)
    \/ \E s \in SplitterIds, ds \in Datasets : GetTrainDatasetCall(s, ds)
    \/ \E s \in SplitterIds, ds \in Datasets : GetValDatasetCall(s, ds)
    \/ \E s \in SplitterIds, ds \in Datasets : GetSetsCall(s, ds)

SpecDicts == Init /\ [][NextDicts]_vars

\* The calls on tensors, <<length, fraction, shuffle>>: every permutation is
\* drawn up to MaxLen; the documented example of length 10 and the lengths of
\* FloatCases are called without shuffling.
TensorInputs ==
    { <<n, f, sh>> : n \in 0 .. MaxLen, f \in Fractions, sh \in BOOLEAN }
        \cup { <<10, f, FALSE>> : f \in Fractions }
        \cup { <<c[1], c[2], FALSE>> : c \in FloatCases }

\* Those of FloatCases whose seeded shuffle draws tabulated words only
SeededFloatCases == { c \in FloatCases : BitLength(c[1]) <= 5 }

\* The two splitting functions: construction of a splitter, the tensor splitter
NextSplit ==
    \/ \E n \in 0 .. MaxLen, f \in Fractions, sd \in Seeds : Construct(1, n, f, sd)
    \/ \E c \in SeededFloatCases, k \in 0 .. MaxSeed : Construct(1, c[1], c[2], Some(k))
    \/ \E in \in TensorInputs :
           \E p \in (IF in[3] THEN Perms(in[1]) ELSE {None}) :
               TrainValidSplitterCall(in[1], in[2], in[3], p)

SpecSplit == Init /\ [][NextSplit]_vars

\* The tensor splitter and the assembler
NextTensor ==
    \/ \E in \in TensorInputs :
           \E p \in (IF in[3] THEN Perms(in[1]) ELSE {None}) :
               TrainValidSplitterCall(in[1], in[2], in[3], p)
    \/ \E in \in TensorInputs, vd \in {None} \cup { Some(ValData(m)) : m \in 0 .. 1 } :
           \E vs \in {None, Some(in[2])} :
               \E p \in (IF in[3] /\ vs # None THEN Perms(in[1]) ELSE {None}) :
                   GetTrainValidSetsCall(in[1], vd, vs, in[3], p)

SpecTensor == Init /\ [][NextTensor]_vars

\* Two constructions and the other users of the generator
NextSeed ==
    \/ \E s \in SplitterIds, n \in 0 .. MaxLen, f \in Fractions, sd \in Seeds :
           Construct(s, n, f, sd)
    \/ OtherRandomUse

SpecSeed == Init /\ [][NextSeed]_vars

---------------------------------------------------------------------------
(* Properties *)

\* k is the floor of n * f
IsFloor(k, n, f) == k * f[2] <= n * f[1] /\ n * f[1] < (k + 1) * f[2]

\* d is a power of 2
RECURSIVE IsPowerOfTwo(_)
IsPowerOfTwo(d) == d = 1 \/ (d % 2 = 0 /\ IsPowerOfTwo(d \div 2))

\* f is a binary fraction
Dyadic(f) == IsPowerOfTwo(f[2])

\* k is the floor of n * f, or one less where n * f is an integer and f is not
\* a binary fraction
IsFloatFloor(k, n, f) ==
    \/ IsFloor(k, n, f)
    \/ IsFloor(k + 1, n, f) /\ (n * f[1]) % f[2] = 0 /\ ~Dyadic(f)

\* The outputs of the tensor splitter are the samples p[0], p[1], ... of x and of
\* y in this order, the validation part first
PairedBy(out, n, p) ==
    LET k == Len(out.x_val)
    IN  /\ Len(out.y_val) = k
        /\ Len(out.x) = n - k
        /\ Len(out.y) = n - k
        /\ \A j \in 1 .. k :
               out.x_val[j] = <<"x", p[j]>> /\ out.y_val[j] = <<"y", p[j]>>
        /\ \A j \in 1 .. (n - k) :
               out.x[j] = <<"x", p[k + j]>> /\ out.y[j] = <<"y", p[k + j]>>

\* t and v together hold every index of 0..n-1 exactly once
IsPartition(t, v, n) ==
    /\ Len(t) + Len(v) = n
    /\ \A i \in 0 .. (n - 1) :
           Cardinality({ k \in 1 .. Len(t) : t[k] = i }) +
           Cardinality({ k \in 1 .. Len(v) : v[k] = i }) = 1
    /\ { t[k] : k \in 1 .. Len(t) } \cap { v[k] : k \in 1 .. Len(v) } = {}

TrainIds(s) == heap[splitters[s].train_ids]
ValidIds(s) == heap[splitters[s].valid_ids]

\* The lists splitter s holds are those a splitter j of the same dataset_len
\* was constructed with: s holds its own, or loaded them from an export of such a j.
HoldsSplitOf(s, j) ==
    /\ splitters[s].train_ids = TrainRef(j)
    /\ splitters[s].valid_ids = ValidRef(j)
    /\ splitters[j].dataset_len = splitters[s].dataset_len

\* C1: a splitter constructed with a fraction in [0,1] that has loaded only
\* exports of splitters of the same dataset_len holds train_ids and valid_ids that
\* are disjoint, hold every index of 0..N-1 exactly once, and have N elements in all.
C1_PartitionInvariant ==
    \A s \in DOMAIN splitters :
        (InUnit(splitters[s].split_fraction)
             /\ \E j \in DOMAIN splitters : HoldsSplitOf(s, j))
        => IsPartition(TrainIds(s), ValidIds(s), splitters[s].dataset_len)

C1_Witness ==
    /\ DOMAIN splitters = {1, 2}
    /\ ret.op = "load_state_dict"
    /\ ret.self = 2
    /\ HoldsSplitOf(2, 1)
    /\ splitters[2].dataset_len = 2
    /\ splitters[2].split_fraction = <<1, 2>>
    /\ heap[TrainRef(2)] # TrainIds(2)

\* C2 as stated: for a fraction f in [0,1], the tensor splitter (shuffling or
\* not) and a freshly constructed splitter give exactly floor(N*f) validation
\* samples and N - floor(N*f) training samples; f = 0 gives no validation sample
\* and N training samples, f = 1 gives no training sample.
SizesAsStated(nv, nt, n, f) ==
    /\ IsFloor(nv, n, f)
    /\ nt = n - nv
    /\ f[1] = 0 => (nv = 0 /\ nt = n)
    /\ f[1] = f[2] => nt = 0

C2_AsStated ==
    /\ (ret.op = "train_valid_splitter" /\ InUnit(ret.split))
       => /\ SizesAsStated(Len(ret.out.x_val), Len(ret.out.x), ret.n, ret.split)
          /\ SizesAsStated(Len(ret.out.y_val), Len(ret.out.y), ret.n, ret.split)
    /\ \A s \in DOMAIN splitters :
           InUnit(splitters[s].split_fraction)
           => SizesAsStated(Len(ValidIds(s)), Len(TrainIds(s)),
                            splitters[s].dataset_len, splitters[s].split_fraction)

\* C2 (amended): for a fraction f in [0,1], the tensor splitter (shuffling or
\* not) and a freshly constructed splitter give k validation samples and N - k
\* training samples, k being the floor of the double product N*f: k is
\* floor(N*f), or N*f - 1 where N*f is an integer and f is not a binary fraction
\* (N = 100, f = 0.29 gives 28 and 72; N = 22, f = 15/22 gives 14 and 8);
\* f = 0 gives no validation sample and N training samples, f = 1 gives no
\* training sample.
SizesAre(nv, nt, n, f) ==
    /\ IsFloatFloor(nv, n, f)
    /\ nt = n - nv
    /\ f[1] = 0 => (nv = 0 /\ nt = n)
    /\ f[1] = f[2] => nt = 0
    /\ (n = 100 /\ f = <<29, 100>>) => (nv = 28 /\ nt = 72)
    /\ (n = 22 /\ f = <<15, 22>>) => (nv = 14 /\ nt = 8)
    /\ (n = 10 /\ f = <<3, 10>>) => (nv = 3 /\ nt = 7)

C2_SplitSizes ==
    /\ (ret.op = "train_valid_splitter" /\ InUnit(ret.split))
       => /\ SizesAre(Len(ret.out.x_val), Len(ret.out.x), ret.n, ret.split)
          /\ SizesAre(Len(ret.out.y_val), Len(ret.out.y), ret.n, ret.split)
    /\ \A s \in DOMAIN splitters :
           InUnit(splitters[s].split_fraction)
           => SizesAre(Len(ValidIds(s)), Len(TrainIds(s)),
                       splitters[s].dataset_len, splitters[s].split_fraction)

C2_Witness ==
    /\ 1 \in DOMAIN splitters
    /\ splitters[1].dataset_len = 22
    /\ splitters[1].split_fraction = <<15, 22>>
    /\ Len(ValidIds(1)) = 14
    /\ Len(TrainIds(1)) = 8
    /\ ret.op = "train_valid_splitter"
    /\ ret.n = 100
    /\ ret.split = <<29, 100>>
    /\ Len(ret.out.x_val) = 28
    /\ Len(ret.out.x) = 72

\* C3: two splitters constructed with the same dataset_len, the same fraction
\* and the same seed (not None) have identical train_ids and identical valid_ids,
\* whatever the generator's state was before each construction.
C3_SeededDeterminism ==
    \A a \in DOMAIN splitters, b \in DOMAIN splitters :
        (/\ seeds[a] # None
         /\ seeds[a] = seeds[b]
         /\ splitters[a].dataset_len = splitters[b].dataset_len
         /\ splitters[a].split_fraction = splitters[b].split_fraction)
        => (TrainIds(a) = TrainIds(b) /\ ValidIds(a) = ValidIds(b))

C3_Witness ==
    /\ DOMAIN splitters = {1, 2}
    /\ seeds[1] = Some(1)
    /\ seeds[2] = Some(1)
    /\ splitters[1].dataset_len = 3
    /\ splitters[2].dataset_len = 3
    /\ splitters[1].split_fraction = <<1, 2>>
    /\ splitters[2].split_fraction = <<1, 2>>
    /\ TrainIds(1) # SliceFrom(Range(3), 1)
    /\ TrainIds(1) = TrainIds(2)
    /\ \A sh \in Shuffle(Range(3), SeedState(1)) : rng # sh.rng

\* C4: load_state_dict of an exported dict into any splitter (the exporting one
\* or another, of any seed, fraction or length) leaves that splitter with
\* train_ids and valid_ids equal, element for element and in order, to the
\* exporter's at the time of the export; loading a splitter's own current
\* export leaves its partition unchanged.
C4_StateRoundTrip ==
    [][\A s \in SplitterIds : \A d \in dicts :
           LoadStateDictCall(s, d)
           => /\ heap'[splitters'[s].train_ids] = d.train
              /\ heap'[splitters'[s].valid_ids] = d.valid
              /\ d.obj = StateDict(splitters[s])
                 => /\ heap'[splitters'[s].train_ids] = TrainIds(s)
                    /\ heap'[splitters'[s].valid_ids] = ValidIds(s)]_vars

C4_Witness ==
    /\ DOMAIN splitters = {1, 2}
    /\ ret.op = "load_state_dict"
    /\ ret.self = 2
    /\ ret.arg.obj = [train_ids |-> TrainRef(1), valid_ids |-> ValidRef(1)]
    /\ splitters[1].dataset_len = 2
    /\ splitters[2].dataset_len = 1
    /\ splitters[1].split_fraction # splitters[2].split_fraction
    /\ seeds[1] # seeds[2]
    /\ TrainIds(2) = heap[TrainRef(1)]
    /\ ValidIds(2) = heap[ValidRef(1)]
    /\ TrainIds(2) # ValidIds(2)

\* C5: given explicit validation tensors and a split fraction, the assembler does
\* not split: the training dataset pairs the N samples of x and y in their
\* order, the validation dataset pairs x_val and y_val, and the result is that
\* of the same call without a split fraction.
C5_AssemblerPrecedence ==
    (/\ ret.op = "get_train_valid_sets"
     /\ ret.validation_data # None
     /\ ret.validation_split # None)
    => /\ ret.out.trainset = [i \in 1 .. ret.n |-> << <<"x", i - 1>>, <<"y", i - 1>> >>]
       /\ ret.out.valset =
              Some([i \in 1 .. Len(Val(ret.validation_data)[1]) |->
                       <<Val(ret.validation_data)[1][i], Val(ret.validation_data)[2][i]>>])
       /\ ret.out = GetTrainValidSets(DataTensor(ret.n), LabelTensor(ret.n),
                                      ret.validation_data, None, ret.shuffle, None)

C5_Witness ==
    /\ ret.op = "get_train_valid_sets"
    /\ ret.validation_data = Some(ValData(1))
    /\ ret.validation_split = Some(<<1, 2>>)
    /\ ret.shuffle
    /\ ret.n = 3
    /\ Len(ret.out.trainset) = 3

\* C6 as stated: item-at(i) of a view of length L fails with an out-of-range error,
\* and returns no item, for every i >= L and for every i < 0.
C6_AsStated ==
    (/\ ret.op = "getitem"
     /\ (ret.index >= ViewLen(heap, ret.view) \/ ret.index < 0))
    => (ret.err = "IndexError" /\ ret.item = None)

\* C6 (amended): item-at(i) of a view of length L fails with an out-of-range error,
\* and returns no item, for every i >= L and for every i < -L; for -L <= i < 0 it
\* is item-at(L + i), the parent's item at index_sequence[L + i].
C6_SubsetBounds ==
    ret.op = "getitem"
    => LET L == ViewLen(heap, ret.view)
       IN  /\ (ret.index >= L \/ ret.index < 0 - L)
              => (ret.err = "IndexError" /\ ret.item = None)
           /\ (0 - L <= ret.index /\ ret.index < 0)
              => /\ ret.err = GetItem(heap, ret.view, L + ret.index).err
                 /\ ret.item = GetItem(heap, ret.view, L + ret.index).item
                 /\ heap[ret.view.ids][L + ret.index + 1] \in 0 .. (ret.view.dataset - 1)
                    => ret.item = Some(heap[ret.view.ids][L + ret.index + 1])

C6_Witness ==
    /\ ret.op = "getitem"
    /\ ViewLen(heap, ret.view) = 2
    /\ ret.index = 0 - 1
    /\ ret.err = "none"
    /\ ret.item = Some(heap[ret.view.ids][2])

\* C7 as stated: for N > 0 and a fraction outside [0,1], the tensor splitter and
\* the constructor raise no error and one of the two parts is empty while the
\* other holds all N samples.
Degenerate(nv, nt, n) == (nv = 0 /\ nt = n) \/ (nt = 0 /\ nv = n)

C7_AsStated ==
    /\ (ret.op = "train_valid_splitter" /\ ret.n > 0 /\ ~InUnit(ret.split))
       => /\ ret.err = "none"
          /\ Degenerate(Len(ret.out.x_val), Len(ret.out.x), ret.n)
    /\ \A s \in DOMAIN splitters :
           (splitters[s].dataset_len > 0 /\ ~InUnit(splitters[s].split_fraction))
           => Degenerate(Len(ValidIds(s)), Len(TrainIds(s)), splitters[s].dataset_len)

\* C7 (amended): for N > 0 and a fraction f outside [0,1], the tensor splitter
\* and the constructor raise no error and split the (shuffled) samples into the
\* validation part first and the training part after it; for f > 1 the
\* validation part holds all N samples and the training part is empty; for
\* f <= -1 the validation part is empty and the training part holds all N; for
\* -1 < f < 0, with k < 0 the floor of the double product N*f (floor(N*f), or
\* N*f - 1 where N*f is an integer and f is not a binary fraction: -15 for
\* N = 25, f = -14/25), the validation part holds the first N + k samples and
\* the training part the other -k.
OutOfRangeSizes(nv, nt, n, f) ==
    /\ f[1] > f[2] => (nv = n /\ nt = 0)
    /\ f[1] <= 0 - f[2] => (nv = 0 /\ nt = n)
    /\ (0 - f[2] < f[1] /\ f[1] < 0)
       => \E k \in (0 - n) .. (0 - 1) : IsFloatFloor(k, n, f) /\ nv = n + k /\ nt = 0 - k
    /\ (n = 25 /\ f = <<0 - 14, 25>>) => (nv = 10 /\ nt = 15)

C7_OutOfRangeFraction ==
    /\ (ret.op = "train_valid_splitter" /\ ret.n > 0 /\ ~InUnit(ret.split))
       => /\ ret.err = "none"
          /\ OutOfRangeSizes(Len(ret.out.x_val), Len(ret.out.x), ret.n, ret.split)
          /\ OutOfRangeSizes(Len(ret.out.y_val), Len(ret.out.y), ret.n, ret.split)
          /\ IF ret.shuffle
             THEN \E p \in Perms(ret.n) : PairedBy(ret.out, ret.n, p)
             ELSE PairedBy(ret.out, ret.n, Range(ret.n))
    /\ ret.op = "init" => ret.err = "none"
    /\ \A s \in DOMAIN splitters :
           (splitters[s].dataset_len > 0 /\ ~InUnit(splitters[s].split_fraction))
           => /\ OutOfRangeSizes(Len(ValidIds(s)), Len(TrainIds(s)),
                                 splitters[s].dataset_len, splitters[s].split_fraction)
              /\ IsPartition(TrainIds(s), ValidIds(s), splitters[s].dataset_len)

C7_Witness ==
    /\ 1 \in DOMAIN splitters
    /\ splitters[1].dataset_len = 3
    /\ splitters[1].split_fraction = <<0 - 1, 2>>
    /\ Len(ValidIds(1)) = 1
    /\ Len(TrainIds(1)) = 2
    /\ ret.op = "train_valid_splitter"
    /\ ret.n = 2
    /\ ret.split = <<0 - 1, 2>>
    /\ Len(ret.out.x_val) = 1
    /\ Len(ret.out.x) = 1

\* C8 as stated: for the tensor splitter on N samples with f in [0,1] and
\* k = floor(N*f) there is one permutation p of 0..N-1 (the identity without
\* shuffling) with valid_x[j] = x[p[j]], valid_y[j] = y[p[j]] for j < k and
\* train_x[j] = x[p[k+j]], train_y[j] = y[p[k+j]] for j < N-k; N = 10, f = 0.3
\* without shuffling gives validation the samples 0..2 and training the samples
\* 3..9.
C8_AsStated ==
    (ret.op = "train_valid_splitter" /\ InUnit(ret.split))
    => /\ IsFloor(Len(ret.out.x_val), ret.n, ret.split)
       /\ IF ret.shuffle
          THEN \E p \in Perms(ret.n) : PairedBy(ret.out, ret.n, p)
          ELSE PairedBy(ret.out, ret.n, Range(ret.n))
       /\ (ret.n = 10 /\ ~ret.shuffle /\ ret.split = <<3, 10>>)
          => /\ ret.out.x_val = [j \in 1 .. 3 |-> <<"x", j - 1>>]
             /\ ret.out.y_val = [j \in 1 .. 3 |-> <<"y", j - 1>>]
             /\ ret.out.x = [j \in 1 .. 7 |-> <<"x", j + 2>>]
             /\ ret.out.y = [j \in 1 .. 7 |-> <<"y", j + 2>>]

\* C8 (amended): the same with k the floor of the double product N*f, which is
\* floor(N*f), or N*f - 1 where N*f is an integer and f is not a binary
\* fraction: N = 100, f = 0.29 without shuffling gives validation the samples
\* 0..27 and training the samples 28..99, and N = 10, f = 0.3 gives validation
\* the samples 0..2 and training the samples 3..9.
C8_PairingAndOrder ==
    (ret.op = "train_valid_splitter" /\ InUnit(ret.split))
    => /\ IsFloatFloor(Len(ret.out.x_val), ret.n, ret.split)
       /\ IF ret.shuffle
          THEN \E p \in Perms(ret.n) : PairedBy(ret.out, ret.n, p)
          ELSE PairedBy(ret.out, ret.n, Range(ret.n))
       /\ (ret.n = 10 /\ ~ret.shuffle /\ ret.split = <<3, 10>>)
          => /\ ret.out.x_val = [j \in 1 .. 3 |-> <<"x", j - 1>>]
             /\ ret.out.y_val = [j \in 1 .. 3 |-> <<"y", j - 1>>]
             /\ ret.out.x = [j \in 1 .. 7 |-> <<"x", j + 2>>]
             /\ ret.out.y = [j \in 1 .. 7 |-> <<"y", j + 2>>]
       /\ (ret.n = 100 /\ ~ret.shuffle /\ ret.split = <<29, 100>>)
          => /\ ret.out.x_val = [j \in 1 .. 28 |-> <<"x", j - 1>>]
             /\ ret.out.y_val = [j \in 1 .. 28 |-> <<"y", j - 1>>]
             /\ ret.out.x = [j \in 1 .. 72 |-> <<"x", j + 27>>]
             /\ ret.out.y = [j \in 1 .. 72 |-> <<"y", j + 27>>]

C8_Witness ==
    /\ ret.op = "train_valid_splitter"
    /\ ret.n = 3
    /\ ret.shuffle
    /\ ret.split = <<1, 2>>
    /\ ret.out.x_val = << <<"x", 2>> >>
    /\ ret.out.y_val = << <<"y", 2>> >>
    /\ ret.out.x = << <<"x", 0>>, <<"x", 1>> >>

\* C9: load_state_dict accepts any dict with the two fields, also one whose
\* indices do not partition 0..dataset_len-1; afterwards the splitter's
\* partition is the dict's, making views raises no error, and reading a view at
\* a position of its index sequence fails, out of range, exactly when the
\* index stored there is not an index of the parent dataset.
C9_UnvalidatedImport ==
    /\ ret.op = "load_state_dict"
       => /\ ret.err = "none"
          /\ TrainIds(ret.self) = ret.arg.train
          /\ ValidIds(ret.self) = ret.arg.valid
    /\ ret.op \in {"get_train_dataset", "get_val_dataset", "get_sets"}
       => /\ ret.err = "none"
          /\ \A k \in 1 .. Len(ret.result) : ret.result[k] \in views
    /\ (/\ ret.op = "getitem"
        /\ 0 <= ret.index
        /\ ret.index < ViewLen(heap, ret.view))
       => LET stored == heap[ret.view.ids][ret.index + 1]
          IN  IF stored \in 0 .. (ret.view.dataset - 1)
              THEN ret.err = "none" /\ ret.item = Some(stored)
              ELSE ret.err = "IndexError" /\ ret.item = None

C9_Witness ==
    /\ 1 \in DOMAIN splitters
    /\ splitters[1].dataset_len = 2
    /\ splitters[1].train_ids = ForeignTrainRef(1)
    /\ ~IsPartition(TrainIds(1), ValidIds(1), 2)
    /\ ret.op = "getitem"
    /\ ret.view.ids = ForeignTrainRef(1)
    /\ ret.index = 0
    /\ heap[ret.view.ids] = <<2>>
    /\ ret.err = "IndexError"

\* C10: a view keeps the index sequence that was the splitter's train_ids (or
\* valid_ids) when the view was made: no later call, load_state_dict included,
\* changes a view's length or any of its items, and get_train_dataset,
\* get_val_dataset, get_sets and state_dict leave the splitter's train_ids,
\* valid_ids and dataset_len as they are.
ViewsKept ==
    \A v \in views :
        /\ v \in views'
        /\ heap'[v.ids] = heap[v.ids]
        /\ ViewLen(heap', v) = ViewLen(heap, v)
        /\ \A i \in Indices : GetItem(heap', v, i) = GetItem(heap, v, i)

ViewsMadeOver ==
    \A ds \in Datasets :
        /\ GetTrainDatasetCall(1, ds)
           => heap'[ret'.result[1].ids] = TrainIds(1)
        /\ GetValDatasetCall(1, ds)
           => heap'[ret'.result[1].ids] = ValidIds(1)
        /\ GetSetsCall(1, ds)
           => /\ heap'[ret'.result[1].ids] = TrainIds(1)
              /\ heap'[ret'.result[2].ids] = ValidIds(1)

ReadersKeepSplitter ==
    ((\E ds \in Datasets :
          GetTrainDatasetCall(1, ds) \/ GetValDatasetCall(1, ds) \/ GetSetsCall(1, ds))
     \/ StateDictCall(1))
    => /\ splitters' = splitters
       /\ heap'[splitters'[1].train_ids] = TrainIds(1)
       /\ heap'[splitters'[1].valid_ids] = ValidIds(1)

C10_ViewStability ==
    [][ViewsKept /\ ViewsMadeOver /\ ReadersKeepSplitter]_vars

C10_Witness ==
    /\ 1 \in DOMAIN splitters
    /\ ret.op = "load_state_dict"
    /\ splitters[1].train_ids = ForeignTrainRef(1)
    /\ \E v \in views :
           /\ v.ids = TrainRef(1)
           /\ heap[v.ids] # TrainIds(1)
           /\ ViewLen(heap, v) = 2

====
